---- MODULE Spec2Model ----
(***************************************************************************)
(* A model of src/src/agol_pandas.py: helper functions that move a         *)
(* dataframe into an ArcGIS Online hosted table.  Every function of the    *)
(* module is modelled: the three orchestrating functions                   *)
(* (df_to_agol_hosted_table, create_table,                                 *)
(* create_hosted_table_from_dataframe) and set_unique_key_constraint step  *)
(* by step, one action per remote call, the chunk generator                *)
(* df_to_pandas_chunks as a coroutine, the small helpers as one action.    *)
(* Every remote call, and every method call on a dataset that is not a     *)
(* pandas DataFrame, either succeeds or raises.                            *)
(***************************************************************************)
EXTENDS Integers, Sequences, FiniteSets, TLC

VARIABLES
    op,       \* the public function the caller invokes
    inp,      \* its arguments
    item,     \* what gis.content.get finds: "missing", "bare" (no layers, no tables), "table"
    idx,      \* field names carrying a unique index on the remote table
    files,    \* local temporary files that exist
    nfiles,   \* local temporary files created so far
    assets,   \* temporary remote assets uploaded so far (ids 1..assets)
    deleted,  \* assets whose delete() has been invoked
    calls,    \* the remote calls issued, in order
    stack,    \* the active function frames, innermost last
    da,       \* locals of df_to_agol_hosted_table
    su,       \* locals of set_unique_key_constraint
    ct,       \* locals of create_table
    ch,       \* locals of create_hosted_table_from_dataframe
    ret,      \* the value the last returning function returned
    result,   \* what the caller of the public function got
    gen,      \* the generator the caller got from df_to_pandas_chunks
    yielded   \* the chunks the caller drew from it, in order

vars == <<op, inp, item, idx, files, nfiles, assets, deleted, calls, stack,
          da, su, ct, ch, ret, result, gen, yielded>>

env == <<item, idx, files, nfiles, assets, deleted, calls>>
frames == <<da, su, ct, ch>>

(***************************************************************************)
(* Bounds of the model.                                                    *)
(***************************************************************************)
MaxRows == 3
MaxChunkSize == 2
MaxKey == 2
MaxNameLen == 2
MaxFaults == 1

None == "None"
KeyCol == "key"

Min(a, b) == IF a < b THEN a ELSE b

(***************************************************************************)
(* Names.  A name that is neither a local of the function nor bound at     *)
(* module level raises NameError when it is evaluated.                     *)
(***************************************************************************)
ModuleNames ==
    {"os", "uuid", "re", "pd", "tempfile", "GIS",
     "get_temp_file", "convert_dts_utc", "normalize_service_name",
     "df_to_pandas_chunks", "agol_hosted_item_to_sdf", "set_unique_key_constraint",
     "df_to_agol_hosted_table", "create_table", "create_hosted_table_from_dataframe"}

ChunkerLocals == {"df", "chunk_size", "keys", "total_rows", "i", "chunk", "chunk_cnt"}

NameDefined(name, locals) == name \in locals \cup ModuleNames

(***************************************************************************)
(* Datasets.  A row keeps its key and its original position.  A dataset is *)
(* a pandas DataFrame or another object (the docstrings name PySpark).     *)
(***************************************************************************)
Row(k, i) == [k |-> k, id |-> i]

RowSeqs(n) == { [i \in 1..n |-> Row(f[i], i)] : f \in [1..n -> 1..MaxKey] }

AllDatasets ==
    { [pandas |-> p, rows |-> r] :
        p \in BOOLEAN, r \in UNION { RowSeqs(n) : n \in 0..MaxRows } }

\* one dataset per length, keys descending so that sorting reorders it
KeyedRows(n) == [i \in 1..n |-> Row(((n - i) % MaxKey) + 1, i)]

Datasets == { [pandas |-> p, rows |-> KeyedRows(n)] : p \in BOOLEAN, n \in 0..MaxRows }

Pandas(rows) == [pandas |-> TRUE, rows |-> rows]
NoDf == Pandas(<<>>)

IsSortedByKey(s) == \A i \in 1..(Len(s) - 1) : s[i].k <= s[i + 1].k

Perms(rows) ==
    { [i \in 1..Len(rows) |-> rows[p[i]]] : p \in Permutations(1..Len(rows)) }

\* DataFrame.orderBy / sort_values with one key: ascending, ties in any order
SortOrders(rows) == { s \in Perms(rows) : IsSortedByKey(s) }

\* the stable ascending order
StableSort(rows) ==
    CHOOSE s \in SortOrders(rows) :
        \A i \in 1..(Len(s) - 1) : s[i].k = s[i + 1].k => s[i].id < s[i + 1].id

\* df[i:i + n], i counted from 0
Slice(rows, i, n) == SubSeq(rows, i + 1, Min(i + n, Len(rows)))

RECURSIVE SumSizes(_)
SumSizes(cs) == IF cs = <<>> THEN 0 ELSE Len(Head(cs).rows) + SumSizes(Tail(cs))

RECURSIVE Concat(_)
Concat(cs) == IF cs = <<>> THEN <<>> ELSE Head(cs).rows \o Concat(Tail(cs))

(***************************************************************************)
(* Return values.  (payload, flag) pairs; the payload is a message or a    *)
(* list.  A value that is not a pair has another kind.                     *)
(***************************************************************************)
Pair(msg, list, ok) == [kind |-> "pair", ok |-> ok, msg |-> msg, list |-> list]
NoValue == [kind |-> "none", ok |-> FALSE, msg |-> "", list |-> <<>>]
GeneratorObject == [kind |-> "generator", ok |-> FALSE, msg |-> "", list |-> <<>>]
Escaped(msg) == [kind |-> "raised", ok |-> FALSE, msg |-> msg, list |-> <<>>]

\* bool(v) of a returned value: a non-empty tuple is true whatever it holds
Truthy(v) == v.kind = "pair" \/ v.kind = "generator"

(***************************************************************************)
(* df_to_pandas_chunks: a generator.  Calling it runs nothing; each next() *)
(* runs the body up to the next yield.                                     *)
(***************************************************************************)
NewGen(df, chunk_size, keys) ==
    [kind |-> "gen", state |-> "new", df |-> df, chunk_size |-> chunk_size,
     keys |-> keys, data |-> <<>>, i |-> 0, total |-> 0]

\* chunks = [df]
ListIter(df) ==
    [kind |-> "list", state |-> "new", df |-> df, chunk_size |-> 0,
     keys |-> <<>>, data |-> <<>>, i |-> 0, total |-> 0]

NoIter == [ListIter(NoDf) EXCEPT !.state = "done"]

Stop(g) == [yield |-> FALSE, raised |-> FALSE, chunk |-> NoDf,
            it |-> [g EXCEPT !.state = "done"]]
Raised(g) == [yield |-> FALSE, raised |-> TRUE, chunk |-> NoDf,
              it |-> [g EXCEPT !.state = "done"]]
Yield(g, rows) == [yield |-> TRUE, raised |-> FALSE, chunk |-> Pandas(rows), it |-> g]

\* the orders df.orderBy(keys) can produce; none when a key names no column
OrderBy(rows, keys) ==
    IF keys = <<>> THEN {rows}
    ELSE IF \A j \in 1..Len(keys) : keys[j] = KeyCol THEN SortOrders(rows)
    ELSE {}

\* lines 141-147: the pandas branch names chunksize, which nothing defines
PandasChunks(g) ==
    IF NameDefined("chunksize", ChunkerLocals)
    THEN { Yield([g EXCEPT !.state = "loop", !.data = s, !.i = g.chunk_size,
                           !.total = Len(s)],
                 Slice(s, 0, g.chunk_size)) : s \in OrderBy(g.df.rows, g.keys) }
    ELSE { Stop(g) }

\* lines 131-138: the branch for a dataset that is not a pandas DataFrame
OtherChunks(g) ==
    { Stop(g) } \cup   \* orderBy, count or toPandas raises, or count() = 0: caught at line 150
    { Yield([g EXCEPT !.state = "loop", !.data = s, !.i = g.chunk_size,
                      !.total = Len(s)],
            Slice(s, 0, g.chunk_size)) :
        s \in { t \in OrderBy(g.df.rows, g.keys) : Len(t) > 0 } }

GenNext(g) ==
    IF g.state = "done" THEN { Stop(g) }
    ELSE IF g.state = "new" THEN
        IF g.df.pandas
        THEN IF Len(g.df.rows) = 0
             THEN { Raised(g) }           \* line 122, outside the try
             ELSE PandasChunks(g)
        ELSE OtherChunks(g)
    ELSE \* suspended at a yield inside the for loop
        IF g.i < g.total
        THEN { Yield([g EXCEPT !.i = g.i + g.chunk_size],
                     Slice(g.data, g.i, g.chunk_size)) }
             \cup (IF g.df.pandas THEN {} ELSE { Stop(g) })   \* toPandas raises
        ELSE { Stop(g) }

\* next() on what the orchestrators iterate: the list [df] or the generator
IterNext(it) ==
    IF it.kind = "list"
    THEN IF it.state = "new"
         THEN { [yield |-> TRUE, raised |-> FALSE, chunk |-> it.df,
                 it |-> [it EXCEPT !.state = "done"]] }
         ELSE { Stop(it) }
    ELSE GenNext(it)

(***************************************************************************)
(* normalize_service_name on strings, a string being a sequence of         *)
(* characters.                                                             *)
(***************************************************************************)
\* "e'" stands for a letter outside ASCII (an accented e), which \w matches
Alphabet == {"a", "Z", "7", "_", " ", "-", "e'"}
NameLimit == 128

Strings(n) == UNION { [1..m -> Alphabet] : m \in 0..n }

IsSpace(c) == c = " "
IsDigit(c) == c = "7"
IsWord(c) == c \in {"a", "Z", "7", "_", "e'"}    \* what \w matches
LowerChar(c) == IF c = "Z" THEN "z" ELSE c

RECURSIVE LStrip(_)
LStrip(s) == IF s # <<>> /\ IsSpace(Head(s)) THEN LStrip(Tail(s)) ELSE s

RECURSIVE RStrip(_)
RStrip(s) ==
    IF s # <<>> /\ IsSpace(s[Len(s)]) THEN RStrip(SubSeq(s, 1, Len(s) - 1)) ELSE s

Strip(s) == RStrip(LStrip(s))

\* re.sub(r"[^\w]", "_", s)
SubNonWord(s) == [i \in 1..Len(s) |-> IF IsWord(s[i]) THEN s[i] ELSE "_"]

\* re.sub('_+', '_', s)
\* of every run of underscores one is kept
CollapseUnderscores(s) ==
    LET kept == { i \in 1..Len(s) : ~(s[i] = "_" /\ i > 1 /\ s[i - 1] = "_") }
    IN [k \in 1..Cardinality(kept) |->
            s[CHOOSE i \in kept : Cardinality({ j \in kept : j <= i }) = k]]

Lower(s) == [i \in 1..Len(s) |-> LowerChar(s[i])]

\* a normalizer that keeps the whole name
Truncate_none(s) == s
Truncate(s) == IF Len(s) > NameLimit THEN SubSeq(s, 1, NameLimit) ELSE s

\* lines 76-94; isStr is false for an argument that is no string (None)
normalize_service_name(service_name, isStr) ==
    IF ~isStr THEN Pair("", service_name, FALSE)              \* .strip() raises
    ELSE IF Strip(service_name) = <<>> THEN Pair("", <<>>, FALSE)   \* [0] raises
    ELSE LET stripped == Strip(service_name)
             prefixed == IF IsDigit(stripped[1]) THEN <<"_">> \o stripped ELSE stripped
         IN Pair("", Truncate(Lower(CollapseUnderscores(SubNonWord(prefixed)))), TRUE)

(***************************************************************************)
(* The except clauses of the public functions: the exception becomes a     *)
(* (message, False) pair.                                                  *)
(***************************************************************************)
get_temp_file_except(e) == Pair(e, <<>>, FALSE)               \* lines 20-21
convert_dts_utc_except(e) == Pair("df", <<>>, FALSE)          \* lines 54-56
agol_hosted_item_to_sdf_except(e) == Pair(e, <<>>, FALSE)     \* lines 185-186
\* an except clause that reports success
SU_except_ok(e) == Pair(e, <<>>, TRUE)
SU_except(e) == Pair(e, <<>>, FALSE)                          \* lines 246-247
\* a df_to_agol_hosted_table whose except clause lets the exception through
DA_except_reraise(e) == Escaped(e)
DA_except(e) == Pair(e, <<>>, FALSE)                          \* lines 398-399
CT_except(e) == Pair(e, <<>>, FALSE)                          \* lines 467-468
CH_except(e) == Pair(e, <<>>, FALSE)                          \* lines 594-595

(***************************************************************************)
(* Frames.                                                                 *)
(***************************************************************************)
\* an entry of the log of remote calls: the call, and whether it came back
Call(c, ok) == [c |-> c, ok |-> ok]
Issued(c) == \E i \in 1..Len(calls) : calls[i].c = c
NoCallRaised == \A i \in 1..Len(calls) : calls[i].ok

\* a remote call comes back or raises; a run sees at most MaxFaults of them raise
Faults == Cardinality({ i \in 1..Len(calls) : ~calls[i].ok })
Raises == IF Faults < MaxFaults THEN BOOLEAN ELSE {FALSE}

Top == IF stack = <<>> THEN "caller" ELSE stack[Len(stack)]
Pop == SubSeq(stack, 1, Len(stack) - 1)

\* bool(x) of an optional string
Given(x) == x # None /\ x # ""

Modes == {"append", "overwrite", "upsert", "update", "insert"}
UpdateModes == {"upsert", "update", "insert"}

FieldLower(f) == IF f = "KEY" THEN "key" ELSE f

\* lines 221-225: fld_has_unique_idx
\* a comparison of the field names that minds the letter case
fld_has_unique_idx_exact(indexes, key_field_name) == key_field_name \in indexes
fld_has_unique_idx(indexes, key_field_name) ==
    FieldLower(key_field_name) \in { FieldLower(f) : f \in indexes }

\* lines 301-308 (and 432-440, 507-514): the test for an empty dataset
\* the test for an empty dataset left out
EmptyDataframe_never(df) == FALSE
EmptyDataframe(df) == Len(df.rows) = 0

\* line 334: the keyed modes need upsert_column
\* the test for the key column left out
KeyColumnMissing_never(upsert_column) == FALSE
KeyColumnMissing(upsert_column) == ~Given(upsert_column)

IdleDA ==
    [pc |-> "idle", df |-> NoDf, mode |-> "append", upsert_column |-> None,
     chunk_size |-> 1, tgt |-> FALSE, upsert |-> FALSE, skip_inserts |-> FALSE,
     skip_updates |-> FALSE, upsert_matching_field |-> None, chunks |-> NoIter,
     n |-> 0, chunk |-> NoDf, tmp_csv |-> 0, tmp_table |-> 0, result |-> FALSE,
     results |-> <<>>, idx_test |-> NoValue, out |-> NoValue]

IdleSU == [pc |-> "idle", key_field_name |-> None, x |-> 0, status |-> FALSE]

IdleCT == [pc |-> "idle", df |-> NoDf, name |-> <<>>, key_field_name |-> None,
           tmp_csv |-> 0, tmp_table |-> 0, out |-> NoValue]

IdleCH ==
    [pc |-> "idle", df |-> NoDf, name |-> <<>>, table_id |-> None, chunk_size |-> 1,
     key_field_name |-> None, tbl_name |-> <<>>, chunks |-> NoIter, mode |-> None,
     n |-> 0, chunk |-> NoDf, results |-> <<>>]

\* the frame of a call, its parameters bound
EnterDA(df, mode, upsert_column, chunk_size) ==
    [IdleDA EXCEPT !.pc = "start", !.df = df, !.mode = mode,
                   !.upsert_column = upsert_column, !.chunk_size = chunk_size]
EnterSU(key_field_name) ==
    [IdleSU EXCEPT !.pc = "get", !.key_field_name = key_field_name]
EnterCT(name, df, key_field_name) ==
    [IdleCT EXCEPT !.pc = "start", !.df = df, !.name = name,
                   !.key_field_name = key_field_name]
EnterCH(df, name, table_id, chunk_size, key_field_name) ==
    [IdleCH EXCEPT !.pc = "start", !.df = df, !.name = name, !.table_id = table_id,
                   !.chunk_size = chunk_size, !.key_field_name = key_field_name]

\* a function returns v: its frame is popped; the outermost hands v to the caller
Return(v) ==
    /\ stack' = Pop
    /\ ret' = v
    /\ result' = IF Len(stack) = 1 THEN v ELSE result

(***************************************************************************)
(* The caller and the helpers that run in one step.                        *)
(***************************************************************************)
AtCaller(f) == stack = <<>> /\ result.kind = "none" /\ op = f

\* lines 17-21: the file exists once NamedTemporaryFile has made it
get_temp_file ==
    /\ AtCaller("get_temp_file")
    /\ \E created \in BOOLEAN :
        IF created
        THEN /\ files' = files \cup {nfiles + 1}
             /\ nfiles' = nfiles + 1
             /\ result' = Pair("tmp_csv", <<>>, TRUE)
        ELSE /\ result' = get_temp_file_except("tempfile failed")
             /\ UNCHANGED <<files, nfiles>>
    /\ UNCHANGED <<op, inp, item, idx, assets, deleted, calls, stack, frames, ret,
                   gen, yielded>>

\* lines 38-56: a pandas DataFrame has columns; anything else may raise
convert_dts_utc ==
    /\ AtCaller("convert_dts_utc")
    /\ \E raises \in (IF inp.df.pandas THEN {FALSE} ELSE BOOLEAN) :
        result' = IF raises THEN convert_dts_utc_except("no columns")
                  ELSE Pair("df", <<>>, TRUE)
    /\ UNCHANGED <<op, inp, env, stack, frames, ret, gen, yielded>>

call_normalize_service_name ==
    /\ AtCaller("normalize_service_name")
    /\ result' = normalize_service_name(inp.service_name, inp.isStr)
    /\ UNCHANGED <<op, inp, env, stack, frames, ret, gen, yielded>>

\* lines 170-186
agol_hosted_item_to_sdf ==
    /\ AtCaller("agol_hosted_item_to_sdf")
    /\ \E getRaises \in Raises, queryRaises \in Raises :
        IF getRaises \/ item # "table"
        THEN /\ calls' = Append(calls, Call("get", ~getRaises))
             /\ result' = agol_hosted_item_to_sdf_except("no table")
        ELSE /\ calls' = calls \o <<Call("get", TRUE), Call("query", ~queryRaises)>>
             /\ result' = IF queryRaises
                          THEN agol_hosted_item_to_sdf_except("query failed")
                          ELSE Pair("sdf", <<>>, TRUE)
    /\ UNCHANGED <<op, inp, item, idx, files, nfiles, assets, deleted, stack, frames,
                   ret, gen, yielded>>

\* calling the generator function runs none of its body
call_df_to_pandas_chunks ==
    /\ AtCaller("df_to_pandas_chunks")
    /\ gen' = NewGen(inp.df, inp.chunk_size, inp.keys)
    /\ result' = GeneratorObject
    /\ UNCHANGED <<op, inp, env, stack, frames, ret, yielded>>

\* the caller draws the next chunk; an exception of the body reaches the caller
next_chunk ==
    /\ op = "df_to_pandas_chunks"
    /\ result.kind = "generator"
    /\ gen.state # "done"
    /\ \E o \in GenNext(gen) :
        /\ gen' = o.it
        /\ yielded' = IF o.yield THEN Append(yielded, o.chunk) ELSE yielded
        /\ result' = IF o.raised THEN Escaped("The dataframe is empty.") ELSE result
    /\ UNCHANGED <<op, inp, env, stack, frames, ret>>

\* the caller invokes one of the functions modelled step by step
call_set_unique_key_constraint ==
    /\ AtCaller("set_unique_key_constraint")
    /\ stack' = <<"SU">>
    /\ su' = EnterSU(inp.key_field_name)
    /\ UNCHANGED <<op, inp, env, da, ct, ch, ret, result, gen, yielded>>

(***************************************************************************)
(* set_unique_key_constraint, lines 212-247.                               *)
(***************************************************************************)
SULocals == {"gis", "table_id", "key_field_name", "item", "tgt_table",
             "fld_has_unique_idx", "idxName", "new_idx", "x", "status", "e"}
PollAttempts == 12

\* lines 213-227, 244-245
SU_Get ==
    /\ Top = "SU" /\ su.pc = "get"
    /\ \E raises \in Raises :
        /\ calls' = Append(calls, Call("get", ~raises))
        /\ IF raises \/ item # "table" \/ ~Given(su.key_field_name)
           THEN /\ Return(SU_except("no table or field"))
                /\ su' = IdleSU
           ELSE IF fld_has_unique_idx(idx, su.key_field_name)
           THEN /\ Return(Pair("True", <<>>, TRUE))
                /\ su' = IdleSU
           ELSE /\ su' = [su EXCEPT !.pc = "add"]
                /\ UNCHANGED <<stack, ret, result>>
    /\ UNCHANGED <<op, inp, item, idx, files, nfiles, assets, deleted, da, ct, ch,
                   gen, yielded>>

\* lines 228-235: the index may be built at once or later
SU_Add ==
    /\ Top = "SU" /\ su.pc = "add"
    /\ \E raises \in Raises, built \in BOOLEAN :
        /\ calls' = Append(calls, Call("add_index", ~raises))
        /\ IF raises
           THEN /\ Return(SU_except("add_to_definition failed"))
                /\ su' = IdleSU
                /\ UNCHANGED idx
           ELSE /\ idx' = IF built THEN idx \cup {su.key_field_name} ELSE idx
                /\ su' = [su EXCEPT !.pc = "poll"]
                /\ UNCHANGED <<stack, ret, result>>
    /\ UNCHANGED <<op, inp, item, files, nfiles, assets, deleted, da, ct, ch,
                   gen, yielded>>

\* lines 237-243: one turn of the loop; time is a name the module never imports
SU_Poll ==
    /\ Top = "SU" /\ su.pc = "poll"
    /\ IF ~NameDefined("time", SULocals)
       THEN /\ Return(SU_except("name 'time' is not defined"))
            /\ su' = IdleSU
            /\ UNCHANGED <<idx, calls>>
       ELSE \E built \in BOOLEAN :
            LET now == IF built THEN idx \cup {su.key_field_name} ELSE idx
                status == fld_has_unique_idx(now, su.key_field_name)
            IN /\ idx' = now
               /\ calls' = Append(calls, Call("indexes", TRUE))
               /\ IF status \/ su.x + 1 = PollAttempts
                  THEN /\ Return(Pair(IF status THEN "True" ELSE "False", <<>>, TRUE))
                       /\ su' = IdleSU
                  ELSE /\ su' = [su EXCEPT !.x = su.x + 1, !.status = status]
                       /\ UNCHANGED <<stack, ret, result>>
    /\ UNCHANGED <<op, inp, item, files, nfiles, assets, deleted, da, ct, ch,
                   gen, yielded>>

(***************************************************************************)
(* df_to_agol_hosted_table, lines 290-410.                                 *)
(***************************************************************************)
call_df_to_agol_hosted_table ==
    /\ AtCaller("df_to_agol_hosted_table")
    /\ stack' = <<"DA">>
    /\ da' = EnterDA(inp.df, inp.mode, inp.upsert_column, inp.chunk_size)
    /\ UNCHANGED <<op, inp, env, su, ct, ch, ret, result, gen, yielded>>

\* an exception inside the try: the except clause builds the pair, finally runs next
DA_Raise(e) == [da EXCEPT !.pc = "finally", !.out = DA_except(e)]

\* lines 380-396: the entry of the result list for the chunk just written
ChunkResult(d) ==
    [chunk_id |-> d.n, chunk_size |-> Len(d.chunk.rows), mode |-> d.mode,
     result |-> d.result]

\* lines 291-308
DA_Start ==
    /\ Top = "DA" /\ da.pc = "start"
    /\ \E countRaises \in (IF da.df.pandas THEN {FALSE} ELSE BOOLEAN) :
        da' = IF da.mode \notin Modes THEN DA_Raise("Unidentified mode supplied")
              ELSE IF countRaises THEN DA_Raise("count failed")
              ELSE IF EmptyDataframe(da.df) THEN DA_Raise("The dataframe is empty.")
              ELSE [da EXCEPT !.pc = "resolve"]
    /\ UNCHANGED <<op, inp, env, stack, su, ct, ch, ret, result, gen, yielded>>

\* lines 312-321: tgt_table is bound only when the item has layers or tables
DA_Resolve ==
    /\ Top = "DA" /\ da.pc = "resolve"
    /\ \E raises \in Raises :
        /\ calls' = Append(calls, Call("get", ~raises))
        /\ da' = IF raises THEN DA_Raise("get failed")
                 ELSE [da EXCEPT !.pc = "mode", !.tgt = (item = "table")]
    /\ UNCHANGED <<op, inp, item, idx, files, nfiles, assets, deleted, stack, su, ct,
                   ch, ret, result, gen, yielded>>

\* lines 330-331
DA_Truncate ==
    /\ Top = "DA" /\ da.pc = "mode" /\ da.mode = "overwrite"
    /\ IF ~da.tgt
       THEN /\ da' = DA_Raise("tgt_table referenced before assignment")
            /\ UNCHANGED calls
       ELSE \E raises \in Raises :
            /\ calls' = Append(calls, Call("truncate", ~raises))
            /\ da' = IF raises THEN DA_Raise("truncate failed")
                     ELSE [da EXCEPT !.pc = "chunks"]
    /\ UNCHANGED <<op, inp, item, idx, files, nfiles, assets, deleted, stack, su, ct,
                   ch, ret, result, gen, yielded>>

\* lines 333-345: the keyed modes set the flags and call the ensurer
\* the keyed modes with skip_inserts never set
DA_Keyed_noskip ==
    /\ Top = "DA" /\ da.pc = "mode" /\ da.mode \in UpdateModes
    /\ IF KeyColumnMissing(da.upsert_column)
       THEN /\ da' = DA_Raise("a column with unique keys must be identified")
            /\ UNCHANGED <<stack, su>>
       ELSE /\ da' = [da EXCEPT !.pc = "after_su",
                                !.skip_inserts = FALSE,
                                !.skip_updates = (da.mode = "insert"),
                                !.upsert = TRUE,
                                !.upsert_matching_field = da.upsert_column]
            /\ stack' = Append(stack, "SU")
            /\ su' = EnterSU(da.upsert_column)
    /\ UNCHANGED <<op, inp, env, ct, ch, ret, result, gen, yielded>>
DA_Keyed ==
    /\ Top = "DA" /\ da.pc = "mode" /\ da.mode \in UpdateModes
    /\ IF KeyColumnMissing(da.upsert_column)
       THEN /\ da' = DA_Raise("a column with unique keys must be identified")
            /\ UNCHANGED <<stack, su>>
       ELSE /\ da' = [da EXCEPT !.pc = "after_su",
                                !.skip_inserts = (da.mode = "update"),
                                !.skip_updates = (da.mode = "insert"),
                                !.upsert = TRUE,
                                !.upsert_matching_field = da.upsert_column]
            /\ stack' = Append(stack, "SU")
            /\ su' = EnterSU(da.upsert_column)
    /\ UNCHANGED <<op, inp, env, ct, ch, ret, result, gen, yielded>>

\* mode append: neither branch of lines 330-348
\* a mode append that truncates the table as overwrite does
DA_Plain_truncates ==
    /\ Top = "DA" /\ da.pc = "mode" /\ da.mode = "append"
    /\ da' = [da EXCEPT !.pc = "chunks"]
    /\ calls' = Append(calls, Call("truncate", TRUE))
    /\ UNCHANGED <<op, inp, item, idx, files, nfiles, assets, deleted, stack, su, ct,
                   ch, ret, result, gen, yielded>>
DA_Plain ==
    /\ Top = "DA" /\ da.pc = "mode" /\ da.mode = "append"
    /\ da' = [da EXCEPT !.pc = "chunks"]
    /\ UNCHANGED <<op, inp, env, stack, su, ct, ch, ret, result, gen, yielded>>

\* lines 345-347: idx_test is the pair the ensurer returned
DA_AfterSU ==
    /\ Top = "DA" /\ da.pc = "after_su"
    /\ da' = IF ~Truthy(ret)
             THEN [DA_Raise("Unique field constraint required") EXCEPT !.idx_test = ret]
             ELSE [da EXCEPT !.pc = "chunks", !.idx_test = ret]
    /\ UNCHANGED <<op, inp, env, stack, su, ct, ch, ret, result, gen, yielded>>

\* lines 351-359: key_flds is bound only when upsert_column is given
DA_Chunks ==
    /\ Top = "DA" /\ da.pc = "chunks"
    /\ da' = IF Len(da.df.rows) > da.chunk_size
             THEN IF Given(da.upsert_column)
                  THEN [da EXCEPT !.pc = "loop",
                           !.chunks = NewGen(da.df, da.chunk_size, <<da.upsert_column>>)]
                  ELSE DA_Raise("key_flds referenced before assignment")
             ELSE [da EXCEPT !.pc = "loop", !.chunks = ListIter(da.df)]
    /\ UNCHANGED <<op, inp, env, stack, su, ct, ch, ret, result, gen, yielded>>

\* line 361, and line 397 when the chunks are exhausted
DA_Next ==
    /\ Top = "DA" /\ da.pc = "loop"
    /\ \E o \in IterNext(da.chunks) :
        da' = IF o.raised THEN DA_Raise("The dataframe is empty.")
              ELSE IF o.yield
              THEN [da EXCEPT !.pc = "tmpfile", !.chunks = o.it, !.chunk = o.chunk,
                              !.n = da.n + 1]
              ELSE [da EXCEPT !.pc = "finally", !.chunks = o.it,
                              !.out = Pair("", da.results, TRUE)]
    /\ UNCHANGED <<op, inp, env, stack, su, ct, ch, ret, result, gen, yielded>>

\* lines 364-371
DA_TempFile ==
    /\ Top = "DA" /\ da.pc = "tmpfile"
    /\ \E created \in BOOLEAN, csvRaises \in BOOLEAN :
        IF ~created
        THEN /\ da' = DA_Raise("tempfile failed")
             /\ UNCHANGED <<files, nfiles>>
        ELSE /\ files' = files \cup {nfiles + 1}
             /\ nfiles' = nfiles + 1
             /\ da' = IF csvRaises
                      THEN [DA_Raise("to_csv failed") EXCEPT !.tmp_csv = nfiles + 1]
                      ELSE [da EXCEPT !.pc = "upload", !.tmp_csv = nfiles + 1]
    /\ UNCHANGED <<op, inp, item, idx, assets, deleted, calls, stack, su, ct, ch, ret,
                   result, gen, yielded>>

\* lines 373-374
DA_Upload ==
    /\ Top = "DA" /\ da.pc = "upload"
    /\ \E raises \in Raises :
        /\ calls' = Append(calls, Call("upload", ~raises))
        /\ IF raises
           THEN /\ da' = DA_Raise("add failed")
                /\ UNCHANGED assets
           ELSE /\ assets' = assets + 1
                /\ da' = [da EXCEPT !.pc = "analyze", !.tmp_table = assets + 1]
    /\ UNCHANGED <<op, inp, item, idx, files, nfiles, deleted, stack, su, ct, ch, ret,
                   result, gen, yielded>>

\* lines 376-378
DA_Analyze ==
    /\ Top = "DA" /\ da.pc = "analyze"
    /\ \E raises \in Raises :
        /\ calls' = Append(calls, Call("analyze", ~raises))
        /\ da' = IF raises THEN DA_Raise("analyze failed")
                 ELSE [da EXCEPT !.pc = "append"]
    /\ UNCHANGED <<op, inp, item, idx, files, nfiles, assets, deleted, stack, su, ct,
                   ch, ret, result, gen, yielded>>

\* what line 380-391 can do: fail before the call (tgt_table unbound, or
\* df.columns.to_list() on a dataset that is not pandas), raise in the call,
\* return the remote verdict, or fail at len(chunk) on a chunk that is not pandas
AppendOutcomes(d) ==
    IF ~d.tgt THEN {"args"}
    ELSE (IF d.df.pandas THEN {} ELSE {"args"})
         \cup (IF TRUE \in Raises THEN {"raise"} ELSE {})
         \cup {"true", "false"}
         \cup (IF d.chunk.pandas THEN {} ELSE {"len"})

\* lines 380-392
DA_Append ==
    /\ Top = "DA" /\ da.pc = "append"
    /\ \E o \in AppendOutcomes(da) :
        /\ calls' = IF o = "args" THEN calls
                    ELSE Append(calls, Call("append", o # "raise"))
        /\ da' = IF o = "args" THEN DA_Raise("append arguments failed")
                 ELSE IF o = "raise" THEN DA_Raise("append failed")
                 ELSE IF o = "len" THEN DA_Raise("object has no len()")
                 ELSE [da EXCEPT !.pc = "delete", !.result = (o = "true")]
    /\ UNCHANGED <<op, inp, item, idx, files, nfiles, assets, deleted, stack, su, ct,
                   ch, ret, result, gen, yielded>>

\* lines 393-396
\* a loop that leaves the asset of the chunk for later
DA_Delete_deferred ==
    /\ Top = "DA" /\ da.pc = "delete"
    /\ da' = [da EXCEPT !.pc = "loop", !.results = Append(da.results, ChunkResult(da))]
    /\ UNCHANGED <<op, inp, env, stack, su, ct, ch, ret, result, gen, yielded>>
DA_Delete ==
    /\ Top = "DA" /\ da.pc = "delete"
    /\ deleted' = deleted \cup {da.tmp_table}
    /\ \E raises \in Raises :
        /\ calls' = Append(calls, Call("delete", ~raises))
        /\ da' = IF raises THEN DA_Raise("delete failed")
                 ELSE [da EXCEPT !.pc = "loop",
                                 !.results = Append(da.results, ChunkResult(da))]
    /\ UNCHANGED <<op, inp, item, idx, files, nfiles, assets, stack, su, ct, ch, ret,
                   result, gen, yielded>>

\* lines 400-410: the last temp file is removed, the last asset deleted (again)
DA_FinallyFiles(d, fs) == fs \ {d.tmp_csv}
\* a finally block that forgets the remote asset
DA_FinallyDeletes_none(d) == {}
DA_FinallyDeletes(d) == IF d.tmp_table # 0 THEN {d.tmp_table} ELSE {}

DA_Finally ==
    /\ Top = "DA" /\ da.pc = "finally"
    /\ files' = DA_FinallyFiles(da, files)
    /\ deleted' = deleted \cup DA_FinallyDeletes(da)
    /\ calls' = IF DA_FinallyDeletes(da) # {}
                THEN Append(calls, Call("delete", TRUE)) ELSE calls
    /\ Return(da.out)
    /\ da' = IdleDA
    /\ UNCHANGED <<op, inp, item, idx, nfiles, assets, su, ct, ch, gen, yielded>>

(***************************************************************************)
(* create_table, lines 429-479.                                            *)
(***************************************************************************)
call_create_table ==
    /\ AtCaller("create_table")
    /\ stack' = <<"CT">>
    /\ ct' = EnterCT(inp.name, inp.df, inp.key_field_name)
    /\ UNCHANGED <<op, inp, env, da, su, ch, ret, result, gen, yielded>>

\* the return at line 468 leaves the except clause: lines 469-473 never run
CT_Raise(e) == [ct EXCEPT !.pc = "finally", !.out = CT_except(e)]

\* lines 432-443
CT_Start ==
    /\ Top = "CT" /\ ct.pc = "start"
    /\ \E convRaises \in (IF ct.df.pandas THEN {FALSE} ELSE BOOLEAN) :
        ct' = IF convRaises THEN CT_Raise("count or toPandas failed")
              ELSE IF EmptyDataframe(ct.df) THEN CT_Raise("The dataframe is empty.")
              ELSE [ct EXCEPT !.pc = "tmpfile"]
    /\ UNCHANGED <<op, inp, env, stack, da, su, ch, ret, result, gen, yielded>>

\* lines 445-452
CT_TempFile ==
    /\ Top = "CT" /\ ct.pc = "tmpfile"
    /\ \E created \in BOOLEAN, csvRaises \in BOOLEAN :
        IF ~created
        THEN /\ ct' = CT_Raise("tempfile failed")
             /\ UNCHANGED <<files, nfiles>>
        ELSE /\ files' = files \cup {nfiles + 1}
             /\ nfiles' = nfiles + 1
             /\ ct' = IF csvRaises
                      THEN [CT_Raise("to_csv failed") EXCEPT !.tmp_csv = nfiles + 1]
                      ELSE [ct EXCEPT !.pc = "upload", !.tmp_csv = nfiles + 1]
    /\ UNCHANGED <<op, inp, item, idx, assets, deleted, calls, stack, da, su, ch, ret,
                   result, gen, yielded>>

\* lines 454-456
CT_Upload ==
    /\ Top = "CT" /\ ct.pc = "upload"
    /\ \E raises \in Raises :
        /\ calls' = Append(calls, Call("upload", ~raises))
        /\ IF raises
           THEN /\ ct' = CT_Raise("add failed")
                /\ UNCHANGED assets
           ELSE /\ assets' = assets + 1
                /\ ct' = [ct EXCEPT !.pc = "publish", !.tmp_table = assets + 1]
    /\ UNCHANGED <<op, inp, item, idx, files, nfiles, deleted, stack, da, su, ch, ret,
                   result, gen, yielded>>

\* lines 458-462: publish makes a new table, without a unique index on the key
CT_Publish ==
    /\ Top = "CT" /\ ct.pc = "publish"
    /\ \E raises \in Raises :
        /\ calls' = Append(calls, Call("publish", ~raises))
        /\ IF raises
           THEN /\ ct' = CT_Raise("publish failed")
                /\ UNCHANGED <<item, idx, files, stack, su>>
           ELSE /\ item' = "table"
                /\ idx' = {}
                /\ files' = files \ {ct.tmp_csv}
                /\ ct' = [ct EXCEPT !.pc = "after_su"]
                /\ stack' = Append(stack, "SU")
                /\ su' = EnterSU(ct.key_field_name)
    /\ UNCHANGED <<op, inp, nfiles, assets, deleted, da, ch, ret, result, gen, yielded>>

\* lines 462-466
CT_AfterSU ==
    /\ Top = "CT" /\ ct.pc = "after_su"
    /\ ct' = IF ~Truthy(ret) THEN CT_Raise("Could not create unique field constraint")
             ELSE [ct EXCEPT !.pc = "finally", !.out = Pair("pub_table", <<>>, TRUE)]
    /\ UNCHANGED <<op, inp, env, stack, da, su, ch, ret, result, gen, yielded>>

\* lines 474-479
CT_Finally ==
    /\ Top = "CT" /\ ct.pc = "finally"
    /\ files' = files \ {ct.tmp_csv}
    /\ Return(ct.out)
    /\ ct' = IdleCT
    /\ UNCHANGED <<op, inp, item, idx, nfiles, assets, deleted, calls, da, su, ch,
                   gen, yielded>>

(***************************************************************************)
(* create_hosted_table_from_dataframe, lines 505-596.                      *)
(***************************************************************************)
call_create_hosted_table_from_dataframe ==
    /\ AtCaller("create_hosted_table_from_dataframe")
    /\ stack' = <<"CH">>
    /\ ch' = EnterCH(inp.df, inp.name, inp.table_id, inp.chunk_size, inp.key_field_name)
    /\ UNCHANGED <<op, inp, env, da, su, ct, ret, result, gen, yielded>>

\* an exception inside the try: the function returns the pair at once
CH_Raise(e) ==
    /\ Return(CH_except(e))
    /\ ch' = IdleCH

\* lines 554-560, 564, 589-591: the entry of the result list for a chunk
ChunkRecord(c, mode, success) ==
    [chunk_id |-> c.n, chunk_size |-> Len(c.chunk.rows), mode |-> mode,
     Success |-> success]

\* line 516: the test that rejects the arguments
ArgsRejected(name, table_id) == name = <<>> \/ Given(table_id)

\* lines 506-517
CH_Start ==
    /\ Top = "CH" /\ ch.pc = "start"
    /\ \E countRaises \in (IF ch.df.pandas THEN {FALSE} ELSE BOOLEAN) :
        IF countRaises THEN CH_Raise("count failed")
        ELSE IF EmptyDataframe(ch.df) THEN CH_Raise("The dataframe is empty.")
        ELSE IF ArgsRejected(ch.name, ch.table_id)
        THEN CH_Raise("An item ID or name is required.")
        ELSE /\ ch' = [ch EXCEPT !.pc = "search"]
             /\ UNCHANGED <<stack, ret, result>>
    /\ UNCHANGED <<op, inp, env, da, su, ct, gen, yielded>>

\* lines 518-531: past line 516 table_id is empty, so the name is searched;
\* a service whose title is the normalized name is the existing table
CH_Search ==
    /\ Top = "CH" /\ ch.pc = "search"
    /\ \E raises \in Raises :
        /\ calls' = Append(calls, Call("search", ~raises))
        /\ LET tbl_name == normalize_service_name(ch.name, TRUE).list
               hit == item = "table" /\ tbl_name # <<>>
           IN IF raises THEN CH_Raise("search failed")
              ELSE /\ ch' = [ch EXCEPT !.pc = "chunks", !.tbl_name = tbl_name,
                                       !.table_id = IF hit THEN "t" ELSE ch.table_id]
                   /\ UNCHANGED <<stack, ret, result>>
    /\ UNCHANGED <<op, inp, item, idx, files, nfiles, assets, deleted, da, su, ct,
                   gen, yielded>>

\* lines 534-547: mode is bound only on the chunked path
CH_Chunks ==
    /\ Top = "CH" /\ ch.pc = "chunks"
    /\ ch' = IF Len(ch.df.rows) > ch.chunk_size
             THEN [ch EXCEPT !.pc = "loop",
                             !.chunks = NewGen(ch.df, ch.chunk_size, <<ch.key_field_name>>),
                             !.mode = IF ~Given(ch.key_field_name) THEN "append"
                                      ELSE "upsert"]
             ELSE [ch EXCEPT !.pc = "loop", !.chunks = ListIter(ch.df)]
    /\ UNCHANGED <<op, inp, env, stack, da, su, ct, ret, result, gen, yielded>>

\* lines 549-560, and line 593 when the chunks are exhausted
CH_Next ==
    /\ Top = "CH" /\ ch.pc = "loop"
    /\ \E o \in IterNext(ch.chunks),
          colRaises \in BOOLEAN :
        IF o.raised THEN CH_Raise("The dataframe is empty.")
        ELSE IF ~o.yield
        THEN /\ Return(Pair("", ch.results, TRUE))
             /\ ch' = IdleCH
        ELSE IF ~Given(ch.key_field_name) \/ (colRaises /\ ~o.chunk.pandas)
        THEN CH_Raise("no such column")
        ELSE /\ ch' = [ch EXCEPT !.pc = "write", !.chunks = o.it, !.chunk = o.chunk,
                                 !.n = ch.n + 1]
             /\ UNCHANGED <<stack, ret, result>>
    /\ UNCHANGED <<op, inp, env, da, su, ct, gen, yielded>>

\* lines 563-569: the first chunk of a run without a table makes the table
CH_Create ==
    /\ Top = "CH" /\ ch.pc = "write"
    /\ ch.n = 1 /\ ~Given(ch.table_id)
    /\ ch' = [ch EXCEPT !.pc = "after_ct"]
    /\ stack' = Append(stack, "CT")
    /\ ct' = EnterCT(ch.tbl_name, ch.chunk, ch.key_field_name)
    /\ UNCHANGED <<op, inp, env, da, su, ret, result, gen, yielded>>

\* lines 577-585: every other chunk is appended; mode may be unbound
CH_Append ==
    /\ Top = "CH" /\ ch.pc = "write"
    /\ ~(ch.n = 1 /\ ~Given(ch.table_id))
    /\ IF ch.mode = None
       THEN /\ CH_Raise("mode referenced before assignment")
            /\ UNCHANGED da
       ELSE /\ ch' = [ch EXCEPT !.pc = "after_da"]
            /\ stack' = Append(stack, "DA")
            /\ da' = EnterDA(ch.chunk, ch.mode, ch.key_field_name, ch.chunk_size)
            /\ UNCHANGED <<ret, result>>
    /\ UNCHANGED <<op, inp, env, su, ct, gen, yielded>>

\* lines 570-576, 590-592
CH_AfterCT ==
    /\ Top = "CH" /\ ch.pc = "after_ct"
    /\ IF ~ret.ok
       THEN CH_Raise("Table could not be created")
       ELSE /\ ch' = [ch EXCEPT !.pc = "loop", !.table_id = "t",
                        !.results = Append(ch.results, ChunkRecord(ch, "create", TRUE))]
            /\ UNCHANGED <<stack, ret, result>>
    /\ UNCHANGED <<op, inp, env, da, su, ct, gen, yielded>>

\* lines 586-592
CH_AfterDA ==
    /\ Top = "CH" /\ ch.pc = "after_da"
    /\ ch' = [ch EXCEPT !.pc = "loop",
                 !.results = Append(ch.results, ChunkRecord(ch, ch.mode, ret.ok))]
    /\ UNCHANGED <<op, inp, env, stack, da, su, ct, ret, result, gen, yielded>>

(***************************************************************************)
(* The calls the model makes.                                              *)
(***************************************************************************)
Ops ==
    {"get_temp_file", "convert_dts_utc", "normalize_service_name",
     "df_to_pandas_chunks", "agol_hosted_item_to_sdf", "set_unique_key_constraint",
     "df_to_agol_hosted_table", "create_table", "create_hosted_table_from_dataframe"}

NoInput ==
    [df |-> NoDf, chunk_size |-> 1, keys |-> <<>>, mode |-> "append",
     upsert_column |-> None, name |-> <<>>, table_id |-> None,
     key_field_name |-> None, service_name |-> <<>>, isStr |-> TRUE]

ChunkSizes == 1..MaxChunkSize

\* names of NameLimit and of NameLimit + 1 characters: one character, then a's
LongNames ==
    { [i \in 1..(NameLimit + k) |-> IF i = 1 THEN c ELSE "a"] :
        c \in Alphabet, k \in 0..1 }
ServiceNames == { <<>>, <<"Z">>, <<" ">> }

Inputs(f) ==
    CASE f = "convert_dts_utc" ->
            { [NoInput EXCEPT !.df = d] : d \in Datasets }
      [] f = "normalize_service_name" ->
            { [NoInput EXCEPT !.service_name = s, !.isStr = b] :
                s \in Strings(MaxNameLen) \cup LongNames, b \in BOOLEAN }
      [] f = "df_to_pandas_chunks" ->
            { [NoInput EXCEPT !.df = d, !.chunk_size = c, !.keys = k] :
                d \in AllDatasets, c \in ChunkSizes, k \in {<<>>, <<KeyCol>>} }
      [] f = "set_unique_key_constraint" ->
            { [NoInput EXCEPT !.key_field_name = k] : k \in {None, "key", "KEY"} }
      [] f = "df_to_agol_hosted_table" ->
            { [NoInput EXCEPT !.df = d, !.chunk_size = c, !.mode = m,
                              !.upsert_column = u] :
                d \in Datasets, c \in ChunkSizes, m \in Modes \cup {"replace"},
                u \in {None, "", KeyCol} }
      [] f = "create_table" ->
            { [NoInput EXCEPT !.df = d, !.name = <<"z">>, !.key_field_name = k] :
                d \in Datasets, k \in {None, KeyCol} }
      [] f = "create_hosted_table_from_dataframe" ->
            { [NoInput EXCEPT !.df = d, !.chunk_size = c, !.name = n, !.table_id = t,
                              !.key_field_name = k] :
                d \in Datasets, c \in ChunkSizes, n \in ServiceNames,
                t \in {None, "t"}, k \in {None, KeyCol} }
      [] OTHER -> { NoInput }

\* the remote side the call meets
Items(f) ==
    IF f \in {"agol_hosted_item_to_sdf", "set_unique_key_constraint",
              "df_to_agol_hosted_table"}
    THEN {"missing", "bare", "table"}
    ELSE IF f = "create_hosted_table_from_dataframe" THEN {"missing", "table"}
    ELSE {"missing"}

Indexes(f, i) ==
    IF i # "table" THEN { {} }
    ELSE IF f = "set_unique_key_constraint" THEN { {}, {"key"}, {"KEY"} }
    ELSE { {}, {"KEY"} }

Init ==
    /\ op \in Ops
    /\ inp \in Inputs(op)
    /\ item \in Items(op)
    /\ idx \in Indexes(op, item)
    /\ files = {}
    /\ nfiles = 0
    /\ assets = 0
    /\ deleted = {}
    /\ calls = <<>>
    /\ stack = <<>>
    /\ da = IdleDA
    /\ su = IdleSU
    /\ ct = IdleCT
    /\ ch = IdleCH
    /\ ret = NoValue
    /\ result = NoValue
    /\ gen = NoIter
    /\ yielded = <<>>

Next ==
    \/ get_temp_file
    \/ convert_dts_utc
    \/ call_normalize_service_name
    \/ agol_hosted_item_to_sdf
    \/ call_df_to_pandas_chunks
    \/ next_chunk
    \/ call_set_unique_key_constraint
    \/ SU_Get
    \/ SU_Add
    \/ SU_Poll
    \/ call_df_to_agol_hosted_table
    \/ DA_Start
    \/ DA_Resolve
    \/ DA_Truncate
    \/ DA_Keyed
    \/ DA_Plain
    \/ DA_AfterSU
    \/ DA_Chunks
    \/ DA_Next
    \/ DA_TempFile
    \/ DA_Upload
    \/ DA_Analyze
    \/ DA_Append
    \/ DA_Delete
    \/ DA_Finally
    \/ call_create_table
    \/ CT_Start
    \/ CT_TempFile
    \/ CT_Upload
    \/ CT_Publish
    \/ CT_AfterSU
    \/ CT_Finally
    \/ call_create_hosted_table_from_dataframe
    \/ CH_Start
    \/ CH_Search
    \/ CH_Chunks
    \/ CH_Next
    \/ CH_Create
    \/ CH_Append
    \/ CH_AfterCT
    \/ CH_AfterDA

Spec == Init /\ [][Next]_vars

\* the call the caller made has come back (or its generator is exhausted)
Done ==
    /\ stack = <<>>
    /\ result.kind # "none"
    /\ (result.kind = "generator" => gen.state = "done")

(***************************************************************************)
(* The claims.                                                             *)
(***************************************************************************)
DA == "df_to_agol_hosted_table"
CH == "create_hosted_table_from_dataframe"
Chunker == "df_to_pandas_chunks"

\* C1, as stated: every public operation ends by returning a
\* (payload, success) pair, and no exception reaches the caller.
C1_EveryOperationReturnsPair == Done => result.kind = "pair"

\* C1, amended: every public operation other than df_to_pandas_chunks ends by
\* returning a (payload, success) pair and lets no exception through;
\* df_to_pandas_chunks returns a generator, and drawing from it raises to the
\* caller exactly when the dataset is an empty pandas DataFrame.
C1_PairExceptChunker ==
    Done => IF op = Chunker
            THEN /\ result.kind \in {"generator", "raised"}
                 /\ (result.kind = "raised") <=> (inp.df.pandas /\ inp.df.rows = <<>>)
            ELSE result.kind = "pair"

\* a remote append raised inside df_to_agol_hosted_table and came out as a pair
C1_Witness ==
    Done /\ op = DA /\ result.kind = "pair" /\ ~result.ok /\ result.msg = "append failed"

\* C2: in df_to_agol_hosted_table every temporary remote asset uploaded has had
\* its delete invoked when its chunk's processing ends and when the operation
\* returns, whichever remote call raised.
C2_TempAssetsDeleted ==
    (op = DA /\ (Done \/ (Top = "DA" /\ da.pc = "loop")))
        => \A a \in 1..assets : a \in deleted

\* the second chunk's asset was uploaded, its analysis raised, both are deleted
C2_Witness ==
    /\ op = DA /\ Done /\ ~result.ok /\ result.msg = "analyze failed"
    /\ assets = 2 /\ deleted = {1, 2}

\* C3: when df_to_agol_hosted_table returns, none of the local temporary files
\* created during the run (one per chunk) still exists.
C3_NoTempFileLeft == (op = DA /\ Done) => files = {}

\* C4: the overall success flag of df_to_agol_hosted_table and of
\* create_hosted_table_from_dataframe is True only if every chunk's write
\* succeeded: a per-chunk status of False makes the overall flag False.
\* Stated for a pandas DataFrame and a run in which no remote call raises.
C4_OverallFlagMeansAllChunks ==
    (Done /\ op \in {DA, CH} /\ inp.df.pandas /\ NoCallRaised
          /\ result.kind = "pair" /\ result.ok)
        => \A i \in 1..Len(result.list) :
              IF op = DA THEN result.list[i].result ELSE result.list[i].Success

\* what the ensurer returned says the constraint is not there
EnsurerFailed(v) == v.kind = "pair" /\ (~v.ok \/ v.msg = "False")

\* C5: in the keyed modes, once set_unique_key_constraint has reported failure,
\* df_to_agol_hosted_table uploads and appends no chunk.  Stated for a pandas
\* DataFrame, an existing table and a run in which no remote call raises: the
\* ensurer fails because the index is not there when it stops waiting.
C5_NoWriteWithoutConstraint ==
    (op = DA /\ Top = "DA" /\ inp.df.pandas /\ item = "table" /\ NoCallRaised
             /\ EnsurerFailed(da.idx_test))
        => /\ ~Issued("upload")
           /\ ~Issued("append")

Ceil(n, c) == (n + c - 1) \div c

\* C6: n > chunk_size rows written in a keyed mode to an existing table, every
\* remote call succeeding, come back as (results, True) with ceil(n / chunk_size)
\* entries, chunk_id 1..N in order, full chunks but for the last, and the
\* requested mode on every entry.  Stated for the pandas DataFrame.
C6_AllChunksReported ==
    LET n == Len(inp.df.rows)
        c == inp.chunk_size
        N == Ceil(n, c)
    IN (/\ Done /\ op = DA /\ inp.mode \in UpdateModes /\ Given(inp.upsert_column)
        /\ inp.df.pandas /\ n > c /\ item = "table" /\ NoCallRaised)
        => /\ result.kind = "pair" /\ result.ok
           /\ Len(result.list) = N
           /\ \A i \in 1..Len(result.list) :
                /\ result.list[i].chunk_id = i
                /\ result.list[i].chunk_size = (IF i < N THEN c ELSE n - (N - 1) * c)
                /\ result.list[i].mode = inp.mode

\* C7: for a non-empty dataset the chunks df_to_pandas_chunks yields are
\* disjoint, each of 1..chunk_size rows, all but the last full, and their sizes
\* sum to the row count.  Stated for the pandas DataFrame.
C7_ChunksPartition ==
    (Done /\ op = Chunker /\ inp.df.pandas /\ inp.df.rows # <<>>)
        => /\ SumSizes(yielded) = Len(inp.df.rows)
           /\ \A i \in 1..Len(yielded) :
                /\ Len(yielded[i].rows) \in 1..inp.chunk_size
                /\ i < Len(yielded) => Len(yielded[i].rows) = inp.chunk_size
           /\ \A i, j \in 1..Len(Concat(yielded)) :
                i # j => Concat(yielded)[i].id # Concat(yielded)[j].id

\* C8: with sort keys, the chunks df_to_pandas_chunks yields, concatenated, are
\* the rows of the dataset in ascending key order, equal keys in their original
\* order.  Stated for the pandas DataFrame.
C8_ConcatIsStableSort ==
    (Done /\ op = Chunker /\ inp.df.pandas /\ inp.df.rows # <<>> /\ inp.keys = <<KeyCol>>)
        => Concat(yielded) = StableSort(inp.df.rows)

\* C9: an empty dataset given to df_to_agol_hosted_table or
\* create_hosted_table_from_dataframe with a valid mode issues no remote call
\* and comes back as a (message, False) pair.
C9_EmptyDatasetNoRemoteCall ==
    (op \in {DA, CH} /\ inp.df.rows = <<>> /\ inp.mode \in Modes)
        => /\ calls = <<>>
           /\ (Done => result.kind = "pair" /\ ~result.ok)

\* create_hosted_table_from_dataframe has turned an empty dataset down
C9_Witness ==
    /\ op = CH /\ Done /\ inp.df.rows = <<>>
    /\ ~result.ok /\ result.msg = "The dataframe is empty." /\ calls = <<>>

\* C10: a keyed mode without upsert_column (None or empty) never invokes the
\* chunker nor the ensurer, uploads and appends nothing, and comes back as a
\* (message, False) pair.
C10_MissingKeyColumnFails ==
    (op = DA /\ inp.mode \in UpdateModes /\ ~Given(inp.upsert_column))
        => /\ su.pc = "idle" /\ ~Issued("add_index")
           /\ da.chunks = NoIter
           /\ ~Issued("upload") /\ ~Issued("append")
           /\ (Done => result.kind = "pair" /\ ~result.ok)

\* upsert without a key column on a non-empty dataset, turned down after the
\* target was resolved
C10_Witness ==
    /\ op = DA /\ Done /\ inp.mode = "upsert" /\ inp.upsert_column = None
    /\ inp.df.rows # <<>> /\ Issued("get")
    /\ ~result.ok /\ result.msg = "a column with unique keys must be identified"

SU == "set_unique_key_constraint"
CT == "create_table"

\* C11: when the index metadata of the table already holds a unique index on a
\* field equal to key_field_name up to letter case, set_unique_key_constraint
\* returns (True, True) after its one read of the item: no add-index request,
\* no poll, and nothing on the remote side changes.
C11_ExistingIndexIsNoOp ==
    [][ (/\ Top = "SU" /\ su.pc = "get" /\ item = "table"
         /\ \E f \in idx : FieldLower(f) = FieldLower(su.key_field_name)
         /\ calls' = Append(calls, Call("get", TRUE)))
        => /\ ret' = Pair("True", <<>>, TRUE)
           /\ stack' = Pop
           /\ <<item, idx, assets, deleted>>' = <<item, idx, assets, deleted>> ]_vars

\* key was asked for, KEY carries the unique index: one read, (True, True)
C11_Witness ==
    /\ op = SU /\ Done /\ inp.key_field_name = "key" /\ idx = {"KEY"}
    /\ result = Pair("True", <<>>, TRUE)
    /\ calls = <<Call("get", TRUE)>>

FirstChunkWriteRaised ==
    \E i \in 1..Len(calls) :
        /\ calls[i].c \in {"upload", "analyze", "append"} /\ ~calls[i].ok
        /\ \A j \in 1..(i - 1) : calls[j].c # "delete"

\* C13: in df_to_agol_hosted_table with N >= 2 chunks, when a call of the write
\* of a chunk before the last raises, the remaining chunks are still attempted
\* and the caller gets the list of per-chunk results, one entry per chunk,
\* not an error message alone.  Stated for a failure in the first chunk.
C13_FailedChunkDoesNotAbort ==
    LET n == Len(inp.df.rows)
        c == inp.chunk_size
    IN (op = DA /\ Done /\ n > c /\ FirstChunkWriteRaised)
        => /\ result.kind = "pair"
           /\ Len(result.list) = Ceil(n, c)

IsAsciiLower(c) == c = "a" \/ c = "z"
IsNameChar(c) == IsAsciiLower(c) \/ IsDigit(c) \/ c = "_"
IsLowerWord(c) == IsNameChar(c) \/ c = "e'"
IsAscii(s) == \A i \in 1..Len(s) : s[i] # "e'"

\* the name matches ^[a-z][a-z0-9_]*$
MatchesServiceName(s) ==
    /\ s # <<>>
    /\ IsAsciiLower(s[1])
    /\ \A i \in 1..Len(s) : IsNameChar(s[i])

\* C14, as stated: for every non-empty input string the name returned by
\* normalize_service_name matches ^[a-z][a-z0-9_]*$ and is at most 128 long.
C14_NameMatchesPattern ==
    (op = "normalize_service_name" /\ Done /\ inp.isStr /\ inp.service_name # <<>>)
        => /\ MatchesServiceName(result.list)
           /\ Len(result.list) <= NameLimit

\* C14, amended: for every input string that is not empty once the surrounding
\* whitespace is stripped, the name comes back with flag True, is made of
\* lowercase word characters only (for an ASCII input: lowercase letters,
\* digits and underscores), does not start with a digit (it may start with an
\* underscore), and is at most 128 long; a string of whitespace alone comes
\* back as the empty name with flag False.
C14_NameIsLegal ==
    (op = "normalize_service_name" /\ Done /\ inp.isStr /\ inp.service_name # <<>>)
        => IF \A i \in 1..Len(inp.service_name) : IsSpace(inp.service_name[i])
           THEN result = Pair("", <<>>, FALSE)
           ELSE /\ result.kind = "pair" /\ result.ok
                /\ result.list # <<>>
                /\ \A i \in 1..Len(result.list) :
                      /\ IsLowerWord(result.list[i])
                      /\ IsAscii(inp.service_name) => IsNameChar(result.list[i])
                /\ ~IsDigit(result.list[1])
                /\ Len(result.list) <= NameLimit

\* a name of 129 characters that starts with a digit: prefixed, then cut to 128
C14_Witness ==
    /\ op = "normalize_service_name" /\ Done /\ inp.isStr
    /\ Len(inp.service_name) = NameLimit + 1 /\ inp.service_name[1] = "7"
    /\ result.ok /\ Len(result.list) = NameLimit
    /\ result.list[1] = "_" /\ result.list[2] = "7"

\* the flags df_to_agol_hosted_table hands to tgt_table.append
SentFlags(d) == <<d.upsert, d.skip_inserts, d.skip_updates, d.upsert_matching_field>>

\* C15: the flags of every remote append depend on the mode alone: append and
\* overwrite send upsert, skip_inserts and skip_updates False and no matching
\* field; upsert sends upsert True; update adds skip_inserts; insert adds
\* skip_updates; the keyed modes send upsert_column as the matching field; and
\* the ensurer has been invoked exactly when the mode is a keyed one.
C15_FlagsFollowMode ==
    (Top = "DA" /\ da.pc \in {"append", "delete"})
        => /\ SentFlags(da) =
                CASE da.mode \in {"append", "overwrite"} -> <<FALSE, FALSE, FALSE, None>>
                  [] da.mode = "upsert" -> <<TRUE, FALSE, FALSE, da.upsert_column>>
                  [] da.mode = "update" -> <<TRUE, TRUE, FALSE, da.upsert_column>>
                  [] da.mode = "insert" -> <<TRUE, FALSE, TRUE, da.upsert_column>>
           /\ (da.idx_test.kind = "pair") <=> (da.mode \in {"upsert", "update", "insert"})

\* an append of mode update has been sent and has come back
C15_Witness ==
    /\ op = DA /\ Top = "DA" /\ da.pc = "delete" /\ da.mode = "update"
    /\ SentFlags(da) = <<TRUE, TRUE, FALSE, KeyCol>>
    /\ calls[Len(calls)] = Call("append", TRUE)

CountCalls(c) == Cardinality({ i \in 1..Len(calls) : calls[i].c = c })

\* C16: df_to_agol_hosted_table invokes truncate on the remote table at most
\* once, never in mode append, upsert, update or insert, and in mode overwrite
\* every upload and every append comes after the one truncate has returned.
C16_TruncateOnceOnOverwrite ==
    op = DA
        => /\ CountCalls("truncate") <= 1
           /\ inp.mode # "overwrite" => ~Issued("truncate")
           /\ inp.mode = "overwrite" =>
                \A i \in 1..Len(calls) :
                    calls[i].c \in {"upload", "append"} =>
                        /\ CountCalls("truncate") = 1
                        /\ \E j \in 1..(i - 1) : calls[j] = Call("truncate", TRUE)

\* an overwrite of one chunk: the table is truncated, then the chunk is written
C16_Witness ==
    /\ op = DA /\ Done /\ inp.mode = "overwrite" /\ result.ok
    /\ Len(calls) >= 5
    /\ SubSeq(calls, 1, 5) =
          <<Call("get", TRUE), Call("truncate", TRUE), Call("upload", TRUE),
            Call("analyze", TRUE), Call("append", TRUE)>>

IsWriteCall(x) == x.c \in {"upload", "analyze", "append", "delete"}

\* the remote calls of the chunk writes, in the order they were issued
WriteCalls == SelectSeq(calls, IsWriteCall)

\* C17: the chunk writes of df_to_agol_hosted_table are sequential: a chunk's
\* calls go upload, analyze, append, delete; the upload of the next chunk
\* comes only after the delete of the asset before it was invoked; and the
\* k-th append carries chunk k, whose asset is the k-th one uploaded.
C17_ChunkWritesSequential ==
    op = DA
        => /\ \A i \in 1..Len(WriteCalls) :
                LET w == WriteCalls[i]
                    before == IF i = 1 THEN Call("none", TRUE) ELSE WriteCalls[i - 1]
                IN /\ w.c = "upload" => (i = 1 \/ before = Call("delete", TRUE))
                   /\ w.c = "analyze" => before = Call("upload", TRUE)
                   /\ w.c = "append" => before = Call("analyze", TRUE)
                   /\ w.c = "delete" => before.c # "none"
                   /\ before = Call("append", TRUE) => w.c = "delete"
           /\ (Top = "DA" /\ da.pc \in {"analyze", "append", "delete"})
                => /\ da.tmp_table = da.n /\ assets = da.n
                   /\ \A a \in 1..(da.n - 1) : a \in deleted
           /\ (Top = "DA" /\ da.pc = "delete") => CountCalls("append") = da.n
           /\ \A i \in 1..Len(da.results) : da.results[i].chunk_id = i

\* two chunks written one after the other, and the last asset deleted again
C17_Witness ==
    /\ op = DA /\ Done /\ result.ok /\ Len(result.list) = 2
    /\ WriteCalls =
          <<Call("upload", TRUE), Call("analyze", TRUE), Call("append", TRUE),
            Call("delete", TRUE),
            Call("upload", TRUE), Call("analyze", TRUE), Call("append", TRUE),
            Call("delete", TRUE), Call("delete", TRUE)>>

\* C18: in create_hosted_table_from_dataframe, when no table of the normalized
\* name exists, the table is published once, and no later chunk is appended
\* unless the unique index on key_field_name is there on the new table.
\* Stated for a run in which no remote call raises.
C18_ConstraintBeforeAppends ==
    (op = CH /\ Issued("publish") /\ NoCallRaised)
        => /\ CountCalls("publish") = 1
           /\ Issued("append") =>
                \E f \in idx : FieldLower(f) = FieldLower(inp.key_field_name)

\* C19: when the unique index is absent and no remote call raises,
\* set_unique_key_constraint issues exactly one add-index request and then
\* reads the index metadata, at least once and at most 12 times, before it
\* returns.
C19_OneAddThenBoundedPolls ==
    (op = SU /\ Done /\ NoCallRaised /\ Issued("add_index"))
        => /\ CountCalls("add_index") = 1
           /\ CountCalls("indexes") \in 1..PollAttempts

\* C20: when create_table returns, the CSV asset it uploaded to stage the
\* publish has had its delete invoked, on success and on failure alike, and its
\* local temporary CSV file no longer exists.
C20_StagingAssetDeleted ==
    (op = CT /\ Done)
        => /\ \A a \in 1..assets : a \in deleted
           /\ files = {}

RECURSIVE SumChunkSizes(_)
SumChunkSizes(rs) ==
    IF rs = <<>> THEN 0 ELSE Head(rs).chunk_size + SumChunkSizes(Tail(rs))

\* C21: whenever df_to_agol_hosted_table returns (results, True), the
\* chunk_size values of the results sum to the row count of the dataset: every
\* row was handed to a remote append.  Stated for the pandas DataFrame and a
\* run in which no remote call raises.
C21_SuccessMeansEveryRowSent ==
    (op = DA /\ Done /\ inp.df.pandas /\ NoCallRaised
             /\ result.kind = "pair" /\ result.ok)
        => SumChunkSizes(result.list) = Len(inp.df.rows)

\* C22: when the target item cannot be resolved (gis.content.get finds nothing,
\* or the item has neither layers nor tables), df_to_agol_hosted_table
\* truncates nothing, creates no local temp file, uploads no asset, and comes
\* back as a (message, False) pair.  Stated for a run in which no remote call
\* raises.
C22_UnresolvedTargetWritesNothing ==
    (op = DA /\ item # "table" /\ NoCallRaised)
        => /\ ~Issued("truncate")
           /\ nfiles = 0
           /\ ~Issued("upload")
           /\ (Done => result.kind = "pair" /\ ~result.ok)

\* C23: in overwrite mode, a failure pair that df_to_agol_hosted_table returns
\* for a client-side problem found before any chunk was attempted (no temp
\* file made, nothing uploaded, no remote call raised) leaves the remote table
\* untruncated.
C23_NoTruncateBeforeClientFailure ==
    (op = DA /\ Done /\ inp.mode = "overwrite" /\ NoCallRaised
             /\ result.kind = "pair" /\ ~result.ok
             /\ nfiles = 0 /\ ~Issued("upload"))
        => ~Issued("truncate")

\* C24: create_hosted_table_from_dataframe turns its arguments down with
\* 'An item ID or name is required.' only when neither name nor table_id is
\* given; with a table_id it goes on to write the chunks to that table.
C24_RejectsOnlyWithoutNameAndId ==
    (op = CH /\ Done /\ result.msg = "An item ID or name is required.")
        => (inp.name = <<>> /\ ~Given(inp.table_id))

====
